---- MODULE Spec2Model ----
(***************************************************************************)
(* The streaming archive pipeline of casper-db-utils.                      *)
(*                                                                         *)
(* 1. The blocking bounded byte channel (subcommands/archive/              *)
(*    ring_buffer.rs): a lock-free single-producer / single-consumer ring  *)
(*    buffer, a Mutex<bool> "done" flag and one Condvar shared by a        *)
(*    BlockingProducer and a BlockingConsumer, each used by its own        *)
(*    thread.  Every statement of read(), write() and the two Drop impls   *)
(*    that touches shared state is one action, so that all interleavings   *)
(*    of the buffer operations (outside the mutex) with the lock /         *)
(*    predicate / wait / notify steps (under the mutex) are explored.      *)
(*                                                                         *)
(* 2. create_archive_streamed (subcommands/archive/create/pack.rs) with    *)
(*    the packing worker it spawns (subcommands/archive/tar_utils.rs),     *)
(*    which use that channel.                                              *)
(*                                                                         *)
(* 3. unpack() with validate_destination_path (subcommands/archive/        *)
(*    unpack.rs, unpack/file_stream.rs).                                   *)
(*                                                                         *)
(* 4. download_archive and StreamPipe (subcommands/archive/unpack/         *)
(*    download_stream.rs).                                                 *)
(*                                                                         *)
(* 5. ProgressTracker (common/progress.rs).                                *)
(*                                                                         *)
(* 6. The record-level pipeline: ArchiveStream::new / pack                 *)
(*    (tar_utils.rs), compression into the archive file, and unpack of     *)
(*    that file into a fresh directory.                                    *)
(*                                                                         *)
(* 7. The zstd window configuration (zstd_utils.rs,                        *)
(*    archive_get/zstd_decode.rs).                                         *)
(*                                                                         *)
(* Specifications: Spec (the channel used in any way its API allows),      *)
(* FairSpec (Spec with thread-scheduling fairness), SpecAnyCap (Spec with  *)
(* capacity 0 allowed), SpecCreate (one call of create_archive_streamed),  *)
(* FairSpecCreate (SpecCreate with thread-scheduling fairness),            *)
(* SpecUnpack (one call of unpack), SpecArchive (one call of either),      *)
(* SpecDownload (calls of download_archive with one dest), SpecProgress    *)
(* (one ProgressTracker advanced by any steps), SpecPipeline (a directory  *)
(* packed, compressed and unpacked) and SpecCodec (one encoder and one     *)
(* decoder on a stream).                                                   *)
(***************************************************************************)
EXTENDS Naturals, Integers, Sequences, FiniteSets, TLC

\* Largest capacity handed to BlockingRingBuffer::new.
MaxCap == 2
\* Length of the byte sequence the producer side has to send.
MaxLen == 3
\* Largest slice handed to one BlockingProducer::write call.
MaxChunk == 2
\* Largest destination buffer handed to one BlockingConsumer::read call.
MaxBuf == 2

VARIABLES
    capacity,   \* argument of BlockingRingBuffer::new
    chan,       \* "none" | "new" | "split" | "failed": life cycle of the channel
    rb,         \* content of the ring buffer, oldest byte first
    done,       \* the bool inside Arc<Mutex<bool>>
    mutex,      \* "free" | "p" | "c": who holds the done mutex
    waiters,    \* threads parked on the condvar
    ppc,        \* producer thread: position inside write() / drop()
    pbuf,       \* producer: the slice given to the current (last) write call
    pn,         \* producer: byte count of the current (last) write call
    pres,       \* producer: "none" | "Ok" | "Err", kind of the last write result
    ppos,       \* producer's caller: payload bytes accepted by returned writes
    wlog,       \* bytes pushed into the ring buffer so far, in order
    cpc,        \* consumer thread: position inside read() / drop()
    cbuf,       \* consumer: length of the destination buffer of the current (last) read
    cdata,      \* consumer: bytes copied into the destination buffer by this read
    cres,       \* consumer: "none" | "Ok" | "Err", kind of the last read result
    got,        \* consumer's caller: bytes returned by reads so far, in order
    nread,      \* bytes popped out of the ring buffer so far
    mpc,        \* thread calling create_archive_streamed: position in it
    mres,       \* result of create_archive_streamed: "none" | "Ok" | an Error variant
    wpc,        \* packing worker thread: position in its closure
    dest,       \* "absent" | "file" | "noparent": what is at the dest path
    srcOk,      \* whether fs::read_dir(db_dir_path) succeeds
    overwrite,  \* the --overwrite flag that run() hands to create_archive
    enumerated, \* whether the worker has listed the source directory
    finished,   \* tar Builder: finish() has written the archive trailer
    encoded,    \* bytes handed to the zstd encoder so far, in order
    encFinish   \* "none" | "Ok" | "Err": outcome of the encoder's finish()

VARIABLES
    upc,        \* unpack(): position in it ("none" when no unpack is running)
    ures,       \* result of unpack(): "none" | "Ok" | an Error variant
    udest,      \* "absent" | "empty" | "nonempty" | "file": what is at the dest path
    udest0,     \* what was at the dest path when unpack() was called
    uinput,     \* "url" | "file": the Input variant given to unpack()
    uinputOk,   \* whether the input can be opened (file exists / server answers)
    unum,       \* number of entries in the archive the input holds
    uopened,    \* the input has been opened (File::open called / request issued)
    uentries    \* entries the unpacker has written under dest so far

unpackVars == <<upc, ures, udest, udest0, uinput, uinputOk, unum, uopened, uentries>>

VARIABLES
    dpc,              \* download_archive(): position in it ("none" when not running)
    dres,             \* result of download_archive(): "none" | "Ok" | an Error variant
    ddest,            \* "absent" | "file": what is at the dest path
    ddest0,           \* what was at the dest path when download_archive() was called
    durl,             \* "malformed" | "refused" | "status" | "ok": what the url leads to
    dzstd,            \* the zstd_decode argument
    druntime,         \* the tokio runtime has been built
    drequested,       \* reqwest::get(url) has been called
    stream_length,    \* StreamPipe.stream_length: <<>> (None) or <<content length>>
    total_bytes_read, \* StreamPipe.total_bytes_read
    progress,         \* StreamPipe.progress
    dlogged,          \* percentages logged by StreamPipe::read so far, in order
    dfile,            \* bytes written to the destination file so far, in order
    dcalls,           \* number of download_archive calls made with this dest
    dprev             \* result of the previous call with this dest ("none" if none)

dlVars == <<dpc, dres, ddest, ddest0, durl, dzstd, druntime, drequested,
            stream_length, total_bytes_read, progress, dlogged, dfile,
            dcalls, dprev>>

VARIABLES
    tracker,          \* "none" | "arg" | "Ok" | "Err": ProgressTracker::new's result
    total_to_process, \* ProgressTracker.total_to_process
    processed,        \* ProgressTracker.processed
    progress_factor,  \* ProgressTracker.progress_factor
    logged,           \* arguments of the log_progress calls so far, in order
    warned            \* the last advance_by logged the "Exceeded total" warning

progVars == <<tracker, total_to_process, processed, progress_factor, logged, warned>>

VARIABLES
    listing,    \* what fs::read_dir(dir) yields, in order: entries and errors
    file_paths, \* ArchiveStream.file_paths: entries still to be packed
    tarball,    \* bytes the tar Builder has written to its sink, in order
    apc,        \* create_archive then unpack(): position ("none" when not running)
    ares,       \* result of create_archive: "none" | "Ok" | "Err"
    afile,      \* content of the compressed archive file at dest
    aread,      \* archive items the unpacker has consumed so far
    outdir,     \* entries under the directory the archive is unpacked into
    xres        \* result of unpack(): "none" | "Ok" | "Streaming"

pipeVars == <<listing, file_paths, tarball, apc, ares, afile, aread, outdir, xres>>

VARIABLES
    zpath,      \* "archive" | "archive_get" | "test": who sets the codec up
    zpayload,   \* bytes written to the encoder
    zwindow,    \* window-size exponent the encoder is configured with (0: not yet)
    zceiling,   \* window_log_max of the decoder (0: not yet)
    zframe,     \* the encoded stream
    zdecoded,   \* bytes the decoder's reads have returned so far, in order
    zreads,     \* kinds of the results of the decoder's reads so far, in order
    zpc         \* position ("none" when no codec is in use)

codecVars == <<zpath, zpayload, zwindow, zceiling, zframe, zdecoded, zreads, zpc>>

extVars == <<unpackVars, dlVars, progVars, pipeVars, codecVars>>

archVars == <<capacity, chan, rb, done, mutex, waiters,
              ppc, pbuf, pn, pres, ppos, wlog,
              cpc, cbuf, cdata, cres, got, nread,
              mpc, mres, wpc, dest, srcOk, overwrite, enumerated, finished, encoded,
              encFinish>>

vars == <<archVars, extVars>>

paramVars == <<srcOk, overwrite, extVars>>
sharedVars == <<rb, done, mutex, waiters>>
prodVars == <<ppc, pbuf, pn, pres, ppos, wlog>>
consVars == <<cpc, cbuf, cdata, cres, got, nread>>
orchVars == <<mpc, mres, wpc, dest, srcOk, overwrite, enumerated, finished, encoded,
              encFinish, extVars>>
chanVars == <<capacity, chan>>
envVars == <<chanVars, orchVars>>

Min(a, b) == IF a <= b THEN a ELSE b

\* The bytes the producer side sends: pairwise distinct, so that a reordered,
\* duplicated or lost byte shows.
Payload == [i \in 1..MaxLen |-> i]

Take(s, n) == SubSeq(s, 1, n)
Drop(s, n) == SubSeq(s, n + 1, Len(s))

(***************************************************************************)
(* ringbuf::RingBuffer<u8> behind Producer<u8> / Consumer<u8>.             *)
(***************************************************************************)
\* Consumer::is_empty
is_empty == Len(rb) = 0
\* Producer::is_full
is_full == Len(rb) = capacity

\* Producer<u8> as io::Write: push_slice stores as many bytes as fit.
\* (faulty variant: the free space is not looked at)
PushCountMutNoBound(k) == k
PushCount(k) == Min(k, capacity - Len(rb))

\* Consumer<u8> as io::Read: pop_slice removes as many bytes as the buffer takes.
PopCount(k) == Min(k, Len(rb))
\* pop_slice: what stays in the ring buffer after n bytes were copied out.
\* (faulty variant: the last byte copied out stays in the buffer)
PopRestMutKeepsLast(n) == IF n > 0 THEN Drop(rb, n - 1) ELSE rb
PopRest(n) == Drop(rb, n)

\* Producer<u8>::write and Consumer<u8>::read report Err(WouldBlock) when a
\* non-empty slice was given and no byte could be moved, Ok(n) otherwise.
\* (faulty variant: a full or empty buffer is reported as Ok(0))
WouldBlockMutNever(n, k) == FALSE
WouldBlock(n, k) == n = 0 /\ k > 0

\* BlockingRingBuffer::new: RingBuffer::new(capacity), no check of capacity.
NewResult(cap) == "new"

(***************************************************************************)
(* Conditions of read() and write().                                       *)
(***************************************************************************)
\* wait_while predicate of write(): keep waiting.
\* (faulty variant: the done flag is not looked at)
WriteWaitPredMutNoDone == is_full
WriteWaitPred == ~done /\ is_full
\* write(): give up with Ok(0) after the wait.
\* (faulty variant: is_full is not looked at)
WriteGivesUpMutNoFull == done
WriteGivesUp == done /\ is_full
\* wait_while predicate of read(): keep waiting.
ReadWaitPred == ~done /\ is_empty
\* read(): end of stream, Ok(0), after the wait.
\* (faulty variant: is_empty is not looked at)
ReadGivesUpMutNoEmpty == done
ReadGivesUp == done /\ is_empty

\* Condvar::notify_one: wakes one parked thread, if there is one.
\* (faulty variant: nobody is woken)
NotifyOneMutLost == UNCHANGED waiters
NotifyOne ==
    \/ waiters = {} /\ UNCHANGED waiters
    \/ \E w \in waiters : waiters' = waiters \ {w}

(***************************************************************************)
(* Construction.                                                           *)
(***************************************************************************)
InitWith(caps) ==
    /\ capacity \in caps
    /\ chan = "none"
    /\ rb = <<>>
    /\ done = FALSE
    /\ mutex = "free"
    /\ waiters = {}
    /\ ppc = "idle" /\ pbuf = <<>> /\ pn = 0 /\ pres = "none" /\ ppos = 0 /\ wlog = <<>>
    /\ cpc = "idle" /\ cbuf = 0 /\ cdata = <<>> /\ cres = "none" /\ got = <<>> /\ nread = 0
    /\ finished = FALSE /\ enumerated = FALSE /\ encoded = <<>> /\ mres = "none"
    /\ encFinish = "none"

\* No archive is being created: the channel alone.
NoArchive ==
    /\ mpc = "none" /\ wpc = "none"
    /\ dest = "absent" /\ srcOk = TRUE /\ overwrite = FALSE

\* No unpack() call is running.
NoUnpack ==
    /\ upc = "none" /\ ures = "none" /\ udest = "absent" /\ udest0 = "absent"
    /\ uinput = "file" /\ uinputOk = TRUE /\ unum = 0
    /\ uopened = FALSE /\ uentries = 0

\* No download_archive() call is running.
NoDownload ==
    /\ dpc = "none" /\ dres = "none" /\ ddest = "absent" /\ ddest0 = "absent"
    /\ durl = "ok" /\ dzstd = FALSE
    /\ druntime = FALSE /\ drequested = FALSE
    /\ stream_length = <<>> /\ total_bytes_read = 0 /\ progress = 0
    /\ dlogged = <<>> /\ dfile = <<>>
    /\ dcalls = 0 /\ dprev = "none"

\* No ProgressTracker exists.
NoProgress ==
    /\ tracker = "none" /\ total_to_process = 0
    /\ processed = 0 /\ progress_factor = 0 /\ logged = <<>> /\ warned = FALSE

\* The capacities the program uses are positive (BUFFER_CAPACITY).
NoPipe ==
    /\ apc = "none" /\ ares = "none" /\ xres = "none"
    /\ listing = <<>> /\ file_paths = <<>> /\ tarball = <<>>
    /\ afile = <<>> /\ aread = 0 /\ outdir = {}

NoCodec ==
    /\ zpc = "none" /\ zpath = "none"
    /\ zpayload = <<>> /\ zwindow = 0 /\ zceiling = 0
    /\ zframe = <<>> /\ zdecoded = <<>> /\ zreads = <<>>

NoOther == NoUnpack /\ NoDownload /\ NoProgress /\ NoPipe /\ NoCodec

Init == InitWith(1..MaxCap) /\ NoArchive /\ NoOther

\* BlockingRingBuffer::new
BlockingRingBuffer_new ==
    /\ chan = "none"
    /\ chan' = NewResult(capacity)
    /\ UNCHANGED <<capacity, sharedVars, prodVars, consVars>>

\* BlockingRingBuffer::split
BlockingRingBuffer_split ==
    /\ chan = "new"
    /\ chan' = "split"
    /\ UNCHANGED <<capacity, sharedVars, prodVars, consVars>>

(***************************************************************************)
(* BlockingProducer::write                                                 *)
(***************************************************************************)
\* The caller invokes write(buf).
WriteCall(buf) ==
    /\ chan = "split"
    /\ ppc = "idle"
    /\ pbuf' = buf
    /\ pn' = 0
    /\ pres' = "none"
    /\ ppc' = "try"
    /\ UNCHANGED <<chanVars, sharedVars, ppos, wlog, consVars>>

\* match self.inner.write(buf): Ok(n) or Err(WouldBlock), no lock held.
WriteInner ==
    /\ ppc = "try"
    /\ LET n == PushCount(Len(pbuf)) IN
         IF WouldBlock(n, Len(pbuf))
         THEN /\ ppc' = "lock_wait"
              /\ UNCHANGED <<rb, pn, wlog>>
         ELSE /\ rb' = rb \o Take(pbuf, n)
              /\ pn' = n
              /\ wlog' = wlog \o Take(pbuf, n)
              /\ ppc' = "lock_notify"
    /\ UNCHANGED <<envVars, done, mutex, waiters, pbuf, pres, ppos, consVars>>

\* Ok arm: let _done = self.done.lock()
WriteLockNotify ==
    /\ ppc = "lock_notify"
    /\ mutex = "free"
    /\ mutex' = "p"
    /\ ppc' = "notify"
    /\ UNCHANGED <<envVars, rb, done, waiters, pbuf, pn, pres, ppos, wlog, consVars>>

\* Ok arm: self.condvar.notify_one()
WriteNotify ==
    /\ ppc = "notify"
    /\ NotifyOne
    /\ ppc' = "unlock_ret"
    /\ UNCHANGED <<envVars, rb, done, mutex, pbuf, pn, pres, ppos, wlog, consVars>>

\* Ok arm: return Ok(bytes_written); the guard is released.
WriteReturn ==
    /\ ppc = "unlock_ret"
    /\ mutex' = "free"
    /\ pres' = "Ok"
    /\ ppos' = ppos + pn
    /\ ppc' = "idle"
    /\ UNCHANGED <<envVars, rb, done, waiters, pbuf, pn, wlog, consVars>>

\* WouldBlock arm: self.done.lock()
WriteLockWait ==
    /\ ppc = "lock_wait"
    /\ mutex = "free"
    /\ mutex' = "p"
    /\ ppc' = "check"
    /\ UNCHANGED <<envVars, rb, done, waiters, pbuf, pn, pres, ppos, wlog, consVars>>

\* WouldBlock arm: wait_while evaluates its predicate under the lock and either
\* parks the thread (releasing the lock) or returns the guard.
WriteWaitWhile ==
    /\ ppc = "check"
    /\ IF WriteWaitPred
       THEN /\ mutex' = "free"
            /\ waiters' = waiters \cup {"p"}
            /\ ppc' = "waiting"
       ELSE /\ ppc' = "after_wait"
            /\ UNCHANGED <<mutex, waiters>>
    /\ UNCHANGED <<envVars, rb, done, pbuf, pn, pres, ppos, wlog, consVars>>

\* A notified (or spuriously woken) producer takes the lock again.
WriteWake ==
    /\ ppc = "waiting"
    /\ "p" \notin waiters
    /\ mutex = "free"
    /\ mutex' = "p"
    /\ ppc' = "check"
    /\ UNCHANGED <<envVars, rb, done, waiters, pbuf, pn, pres, ppos, wlog, consVars>>

\* Condvar waits may wake without a notification.
WriteSpurious ==
    /\ ppc = "waiting"
    /\ "p" \in waiters
    /\ waiters' = waiters \ {"p"}
    /\ UNCHANGED <<envVars, rb, done, mutex, prodVars, consVars>>

\* WouldBlock arm: if *done && self.inner.is_full() { return Ok(0) }, else loop.
WriteAfterWait ==
    /\ ppc = "after_wait"
    /\ mutex' = "free"
    /\ IF WriteGivesUp
       THEN /\ pn' = 0
            /\ pres' = "Ok"
            /\ ppc' = "idle"
       ELSE /\ ppc' = "try"
            /\ UNCHANGED <<pn, pres>>
    /\ UNCHANGED <<envVars, rb, done, waiters, pbuf, ppos, wlog, consVars>>

\* Drop for BlockingProducer: *self.done.lock() = true (guard released at once)
BlockingProducer_drop ==
    /\ chan = "split"
    /\ ppc = "idle"
    /\ mutex = "free"
    /\ done' = TRUE
    /\ ppc' = "drop_notify"
    /\ UNCHANGED <<chanVars, rb, mutex, waiters, pbuf, pn, pres, ppos, wlog, consVars>>

\* Drop for BlockingProducer: self.condvar.notify_one(), outside the lock
ProducerDropNotify ==
    /\ ppc = "drop_notify"
    /\ NotifyOne
    /\ ppc' = "dropped"
    /\ UNCHANGED <<envVars, rb, done, mutex, pbuf, pn, pres, ppos, wlog, consVars>>

(***************************************************************************)
(* BlockingConsumer::read                                                  *)
(***************************************************************************)
\* The caller invokes read(buf) with a destination buffer of k bytes.
ReadCall(k) ==
    /\ chan = "split"
    /\ cpc = "idle"
    /\ cbuf' = k
    /\ cdata' = <<>>
    /\ cres' = "none"
    /\ cpc' = "try"
    /\ UNCHANGED <<chanVars, sharedVars, got, nread, prodVars>>

\* match self.inner.read(buf): Ok(n) or Err(WouldBlock), no lock held.
ReadInner ==
    /\ cpc = "try"
    /\ LET n == PopCount(cbuf) IN
         IF WouldBlock(n, cbuf)
         THEN /\ cpc' = "lock_wait"
              /\ UNCHANGED <<rb, cdata, nread>>
         ELSE /\ cdata' = Take(rb, n)
              /\ rb' = PopRest(n)
              /\ nread' = nread + n
              /\ cpc' = "lock_notify"
    /\ UNCHANGED <<envVars, done, mutex, waiters, cbuf, cres, got, prodVars>>

\* Ok arm: let _done = self.done.lock()
ReadLockNotify ==
    /\ cpc = "lock_notify"
    /\ mutex = "free"
    /\ mutex' = "c"
    /\ cpc' = "notify"
    /\ UNCHANGED <<envVars, rb, done, waiters, cbuf, cdata, cres, got, nread, prodVars>>

\* Ok arm: self.condvar.notify_one()
ReadNotify ==
    /\ cpc = "notify"
    /\ NotifyOne
    /\ cpc' = "unlock_ret"
    /\ UNCHANGED <<envVars, rb, done, mutex, cbuf, cdata, cres, got, nread, prodVars>>

\* Ok arm: return Ok(bytes_read); the guard is released.
ReadReturn ==
    /\ cpc = "unlock_ret"
    /\ mutex' = "free"
    /\ cres' = "Ok"
    /\ got' = got \o cdata
    /\ cpc' = "idle"
    /\ UNCHANGED <<envVars, rb, done, waiters, cbuf, cdata, nread, prodVars>>

\* WouldBlock arm: self.done.lock()
ReadLockWait ==
    /\ cpc = "lock_wait"
    /\ mutex = "free"
    /\ mutex' = "c"
    /\ cpc' = "check"
    /\ UNCHANGED <<envVars, rb, done, waiters, cbuf, cdata, cres, got, nread, prodVars>>

\* WouldBlock arm: wait_while evaluates its predicate under the lock.
ReadWaitWhile ==
    /\ cpc = "check"
    /\ IF ReadWaitPred
       THEN /\ mutex' = "free"
            /\ waiters' = waiters \cup {"c"}
            /\ cpc' = "waiting"
       ELSE /\ cpc' = "after_wait"
            /\ UNCHANGED <<mutex, waiters>>
    /\ UNCHANGED <<envVars, rb, done, cbuf, cdata, cres, got, nread, prodVars>>

\* A notified (or spuriously woken) consumer takes the lock again.
ReadWake ==
    /\ cpc = "waiting"
    /\ "c" \notin waiters
    /\ mutex = "free"
    /\ mutex' = "c"
    /\ cpc' = "check"
    /\ UNCHANGED <<envVars, rb, done, waiters, cbuf, cdata, cres, got, nread, prodVars>>

\* Condvar waits may wake without a notification.
ReadSpurious ==
    /\ cpc = "waiting"
    /\ "c" \in waiters
    /\ waiters' = waiters \ {"c"}
    /\ UNCHANGED <<envVars, rb, done, mutex, consVars, prodVars>>

\* WouldBlock arm: if *done && self.inner.is_empty() { return Ok(0) }, else loop.
ReadAfterWait ==
    /\ cpc = "after_wait"
    /\ mutex' = "free"
    /\ IF ReadGivesUp
       THEN /\ cdata' = <<>>
            /\ cres' = "Ok"
            /\ cpc' = "idle"
       ELSE /\ cpc' = "try"
            /\ UNCHANGED <<cdata, cres>>
    /\ UNCHANGED <<envVars, rb, done, waiters, cbuf, got, nread, prodVars>>

\* Drop for BlockingConsumer: *self.done.lock() = true (guard released at once)
BlockingConsumer_drop ==
    /\ chan = "split"
    /\ cpc = "idle"
    /\ mutex = "free"
    /\ done' = TRUE
    /\ cpc' = "drop_notify"
    /\ UNCHANGED <<chanVars, rb, mutex, waiters, cbuf, cdata, cres, got, nread, prodVars>>

\* Drop for BlockingConsumer: self.condvar.notify_one(), outside the lock
ConsumerDropNotify ==
    /\ cpc = "drop_notify"
    /\ NotifyOne
    /\ cpc' = "dropped"
    /\ UNCHANGED <<envVars, rb, done, mutex, cbuf, cdata, cres, got, nread, prodVars>>

(***************************************************************************)
(* The channel used by two threads in any way the API allows.              *)
(***************************************************************************)
New == BlockingRingBuffer_new /\ UNCHANGED orchVars
Split == BlockingRingBuffer_split /\ UNCHANGED orchVars
ProducerDrop == BlockingProducer_drop /\ UNCHANGED orchVars
ConsumerDrop == BlockingConsumer_drop /\ UNCHANGED orchVars
WriteAny ==
    /\ \E k \in 0..Min(MaxChunk, MaxLen - ppos) : WriteCall(SubSeq(Payload, ppos + 1, ppos + k))
    /\ UNCHANGED orchVars
ReadAny ==
    /\ \E k \in 0..MaxBuf : ReadCall(k)
    /\ UNCHANGED orchVars

\* The steps inside write(), read() and the second half of the drops.
ChannelStep ==
    \/ WriteInner
    \/ WriteLockNotify
    \/ WriteNotify
    \/ WriteReturn
    \/ WriteLockWait
    \/ WriteWaitWhile
    \/ WriteWake
    \/ WriteSpurious
    \/ WriteAfterWait
    \/ ProducerDropNotify
    \/ ReadInner
    \/ ReadLockNotify
    \/ ReadNotify
    \/ ReadReturn
    \/ ReadLockWait
    \/ ReadWaitWhile
    \/ ReadWake
    \/ ReadSpurious
    \/ ReadAfterWait
    \/ ConsumerDropNotify

Next ==
    \/ New
    \/ Split
    \/ WriteAny
    \/ ReadAny
    \/ ProducerDrop
    \/ ConsumerDrop
    \/ ChannelStep

Spec == Init /\ [][Next]_vars

\* The channel created with any capacity, zero included.
InitAnyCap == InitWith(0..MaxCap) /\ NoArchive /\ NoOther
SpecAnyCap == InitAnyCap /\ [][Next]_vars

(***************************************************************************)
(* create_archive_streamed (create/pack.rs) and the packing worker it      *)
(* spawns (ArchiveStream, tar_utils.rs).  The worker owns the producer,    *)
(* the calling thread the consumer.  The archive stream is Payload (the    *)
(* file records) followed by the trailer that tar's Builder::finish        *)
(* writes; failures of the file system and of the encoder are choices of   *)
(* the environment.                                                        *)
(***************************************************************************)
\* The end-of-archive marker written by Builder::finish.
Trailer == 0

InitCreate ==
    /\ InitWith(1..MaxCap)
    /\ mpc = "start" /\ wpc = "unspawned"
    /\ dest \in {"absent", "file", "noparent"}
    /\ srcOk \in BOOLEAN
    /\ overwrite \in BOOLEAN
    /\ NoOther

\* OpenOptions::new().create_new(true).write(true).open(&dest)
OpenDestOk == dest = "absent"

\* The worker thread has run to its end (normally or by a panic).
WorkerTerminated == wpc \in {"returned", "panicked"} /\ ppc = "dropped"

\* let ring_buffer = BlockingRingBuffer::new(BUFFER_CAPACITY)
CreateNew ==
    /\ mpc = "start"
    /\ BlockingRingBuffer_new
    /\ mpc' = "split"
    /\ UNCHANGED <<mres, wpc, dest, paramVars, encFinish, enumerated, finished, encoded>>

\* let (producer, mut consumer) = ring_buffer.split()
CreateSplit ==
    /\ mpc = "split"
    /\ BlockingRingBuffer_split
    /\ mpc' = "spawn"
    /\ UNCHANGED <<mres, wpc, dest, paramVars, encFinish, enumerated, finished, encoded>>

\* let handle = thread::spawn(move || ...)
CreateSpawn ==
    /\ mpc = "spawn"
    /\ wpc' = "new"
    /\ mpc' = "open"
    /\ UNCHANGED <<chanVars, sharedVars, prodVars, consVars,
                   mres, dest, paramVars, encFinish, enumerated, finished, encoded>>

\* let output_file = OpenOptions::new()...open(&dest).map_err(Error::Destination)?
CreateOpenDest ==
    /\ mpc = "open"
    /\ IF OpenDestOk
       THEN /\ dest' = "file"
            /\ mpc' = "encoder"
            /\ UNCHANGED mres
       ELSE /\ mres' = "Destination"
            /\ mpc' = "unwind"
            /\ UNCHANGED dest
    /\ UNCHANGED <<chanVars, sharedVars, prodVars, consVars,
                   wpc, paramVars, encFinish, enumerated, finished, encoded>>

\* let mut encoder = zstd_utils::zstd_encode_stream(output_file, ..)?  (Ok)
CreateEncoderOk ==
    /\ mpc = "encoder"
    /\ mpc' = "copy"
    /\ UNCHANGED <<chanVars, sharedVars, prodVars, consVars,
                   mres, wpc, dest, paramVars, encFinish, enumerated, finished, encoded>>

\* zstd_encode_stream(..)? fails
CreateEncoderFails ==
    /\ mpc = "encoder"
    /\ mres' = "ZstdEncoderSetup"
    /\ mpc' = "unwind"
    /\ UNCHANGED <<chanVars, sharedVars, prodVars, consVars,
                   wpc, dest, paramVars, encFinish, enumerated, finished, encoded>>

\* std_io::copy(&mut consumer, &mut encoder): the next consumer.read(buf)
CreateCopyRead ==
    /\ mpc = "copy"
    /\ \E k \in 1..MaxBuf : ReadCall(k)
    /\ mpc' = "copy_wait"
    /\ UNCHANGED <<mres, wpc, dest, paramVars, encFinish, enumerated, finished, encoded>>

\* std_io::copy: the read returned; 0 ends the copy, otherwise the bytes are
\* written to the encoder.
CreateCopyGot ==
    /\ mpc = "copy_wait"
    /\ cpc = "idle" /\ cres = "Ok"
    /\ IF cdata = <<>>
       THEN /\ mpc' = "finish"
            /\ UNCHANGED encoded
       ELSE /\ encoded' = encoded \o cdata
            /\ mpc' = "copy"
    /\ UNCHANGED <<chanVars, sharedVars, prodVars, consVars,
                   mres, wpc, dest, paramVars, encFinish, enumerated, finished>>

\* std_io::copy(..).map_err(Error::Streaming)?: the write to the encoder fails
CreateCopyFails ==
    /\ mpc = "copy_wait"
    /\ cpc = "idle" /\ cres = "Ok" /\ cdata # <<>>
    /\ mres' = "Streaming"
    /\ mpc' = "unwind"
    /\ UNCHANGED <<chanVars, sharedVars, prodVars, consVars,
                   wpc, dest, paramVars, encFinish, enumerated, finished, encoded>>

\* encoder.finish().map_err(Error::Streaming)?  (Ok)
CreateFinishOk ==
    /\ mpc = "finish"
    /\ encFinish' = "Ok"
    /\ mpc' = "join"
    /\ UNCHANGED <<chanVars, sharedVars, prodVars, consVars,
                   mres, wpc, dest, paramVars, enumerated, finished, encoded>>

\* encoder.finish() fails
CreateFinishFails ==
    /\ mpc = "finish"
    /\ encFinish' = "Err"
    /\ mres' = "Streaming"
    /\ mpc' = "unwind"
    /\ UNCHANGED <<chanVars, sharedVars, prodVars, consVars,
                   wpc, dest, paramVars, enumerated, finished, encoded>>

\* .map(|_| ..).map_err(|_| Error::ArchiveStream) on the result of join(): a
\* worker that panicked gives Err, one that returned gives Ok.
JoinResultMutIgnoresPanic == "Ok"
JoinResult == IF wpc = "panicked" THEN "ArchiveStream" ELSE "Ok"

\* handle.join().map(..).map_err(|_| Error::ArchiveStream)
CreateJoin ==
    /\ mpc = "join"
    /\ WorkerTerminated
    /\ mres' = JoinResult
    /\ mpc' = "unwind"
    /\ UNCHANGED <<chanVars, sharedVars, prodVars, consVars,
                   wpc, dest, paramVars, encFinish, enumerated, finished, encoded>>

\* What is at the dest path once the function has returned: no return path
\* of create_archive_streamed removes or truncates the file it opened.
DestAfterReturnMutCleansUp == IF mres = "Ok" THEN dest ELSE "absent"
DestAfterReturn == dest

\* The function returns: its locals are dropped, the consumer among them (the
\* JoinHandle too, which detaches a worker that was not joined).
CreateReturn ==
    /\ mpc = "unwind"
    /\ BlockingConsumer_drop
    /\ mpc' = "returned"
    /\ dest' = DestAfterReturn
    /\ UNCHANGED <<mres, wpc, paramVars, encFinish, enumerated, finished, encoded>>

\* ArchiveStream::new: fs::read_dir(dir)?
WorkerReadDir ==
    /\ wpc = "new"
    /\ IF srcOk
       THEN /\ enumerated' = TRUE
            /\ wpc' = "pack"
       ELSE /\ wpc' = "new_failed"
            /\ UNCHANGED enumerated
    /\ UNCHANGED <<chanVars, sharedVars, prodVars, consVars,
                   mpc, mres, dest, paramVars, encFinish, finished, encoded>>

\* ArchiveStream::new returned Err: the producer it was given is dropped and
\* the closure panics ("Couldn't read files from ..").
WorkerNewFailed ==
    /\ wpc = "new_failed"
    /\ BlockingProducer_drop
    /\ wpc' = "panicked"
    /\ UNCHANGED <<mpc, mres, dest, paramVars, encFinish, enumerated, finished, encoded>>

\* pack: builder.append_file(..) writes the next bytes of a record with write_all
WorkerAppend ==
    /\ wpc = "pack"
    /\ ppos < MaxLen
    /\ ~(pres = "Ok" /\ pn = 0)
    /\ \E k \in 1..Min(MaxChunk, MaxLen - ppos) :
           WriteCall(SubSeq(Payload, ppos + 1, ppos + k))
    /\ UNCHANGED orchVars

\* pack: a file cannot be opened (expect panics) or read (append_file returns
\* Err, pack returns it, expect panics)
WorkerFileError ==
    /\ wpc = "pack"
    /\ ppc = "idle"
    /\ ppos < MaxLen
    /\ ~(pres = "Ok" /\ pn = 0)
    /\ wpc' = "failed"
    /\ UNCHANGED <<chanVars, sharedVars, prodVars, consVars,
                   mpc, mres, dest, paramVars, encFinish, enumerated, finished, encoded>>

\* write_all: a write returned Ok(0), which write_all turns into
\* Err(WriteZero); pack returns it and expect panics.
WorkerWriteZero ==
    /\ wpc \in {"pack", "finish"}
    /\ ppc = "idle" /\ pres = "Ok" /\ pn = 0
    /\ wpc' = "failed"
    /\ UNCHANGED <<chanVars, sharedVars, prodVars, consVars,
                   mpc, mres, dest, paramVars, encFinish, enumerated, finished, encoded>>

\* pack: self.builder.finish() after the last record: the trailer is written
WorkerFinish ==
    /\ wpc = "pack"
    /\ ppos = MaxLen
    /\ ~(pres = "Ok" /\ pn = 0)
    /\ WriteCall(<<Trailer>>)
    /\ finished' = TRUE
    /\ wpc' = "finish"
    /\ UNCHANGED <<mpc, mres, dest, paramVars, encFinish, enumerated, encoded>>

\* pack returned Ok: the closure ends, the ArchiveStream and with it the
\* producer are dropped.
WorkerReturn ==
    /\ wpc = "finish"
    /\ pres = "Ok" /\ pn > 0
    /\ BlockingProducer_drop
    /\ wpc' = "returned"
    /\ UNCHANGED <<mpc, mres, dest, paramVars, encFinish, enumerated, finished, encoded>>

\* The panic unwinds: Builder's Drop calls finish(), which writes the trailer
\* if finish() has not run yet; its result is ignored.
WorkerUnwindFinish ==
    /\ wpc = "failed"
    /\ ~finished
    /\ WriteCall(<<Trailer>>)
    /\ finished' = TRUE
    /\ wpc' = "unwind_finish"
    /\ UNCHANGED <<mpc, mres, dest, paramVars, encFinish, enumerated, encoded>>

\* The panic unwinds: the producer is dropped.
WorkerUnwindDrop ==
    /\ \/ wpc = "failed" /\ finished
       \/ wpc = "unwind_finish" /\ pres = "Ok"
    /\ BlockingProducer_drop
    /\ wpc' = "panicked"
    /\ UNCHANGED <<mpc, mres, dest, paramVars, encFinish, enumerated, finished, encoded>>

NextCreate ==
    \/ CreateNew
    \/ CreateSplit
    \/ CreateSpawn
    \/ CreateOpenDest
    \/ CreateEncoderOk
    \/ CreateEncoderFails
    \/ CreateCopyRead
    \/ CreateCopyGot
    \/ CreateCopyFails
    \/ CreateFinishOk
    \/ CreateFinishFails
    \/ CreateJoin
    \/ CreateReturn
    \/ WorkerReadDir
    \/ WorkerNewFailed
    \/ WorkerAppend
    \/ WorkerFileError
    \/ WorkerWriteZero
    \/ WorkerFinish
    \/ WorkerReturn
    \/ WorkerUnwindFinish
    \/ WorkerUnwindDrop
    \/ ChannelStep

SpecCreate == InitCreate /\ [][NextCreate]_vars

FairSpec ==
    /\ Spec
    \* A runnable thread is scheduled: every step inside read(), write() and
    \* drop() that does not wait for the mutex is eventually taken.
    /\ WF_vars(WriteInner) /\ WF_vars(WriteNotify) /\ WF_vars(WriteReturn)
    /\ WF_vars(WriteWaitWhile) /\ WF_vars(WriteAfterWait) /\ WF_vars(ProducerDropNotify)
    /\ WF_vars(ReadInner) /\ WF_vars(ReadNotify) /\ WF_vars(ReadReturn)
    /\ WF_vars(ReadWaitWhile) /\ WF_vars(ReadAfterWait) /\ WF_vars(ConsumerDropNotify)
    \* A thread that asks for the mutex gets it if it is released again and again.
    /\ SF_vars(WriteLockNotify) /\ SF_vars(WriteLockWait) /\ SF_vars(WriteWake)
    /\ SF_vars(ReadLockNotify) /\ SF_vars(ReadLockWait) /\ SF_vars(ReadWake)

\* The steps of the packing worker's closure that need no lock, and those
\* that drop the producer (which takes the mutex).
WorkerLocal ==
    \/ WorkerReadDir
    \/ WorkerAppend
    \/ WorkerFileError
    \/ WorkerWriteZero
    \/ WorkerFinish
    \/ WorkerUnwindFinish
WorkerDrop ==
    \/ WorkerNewFailed
    \/ WorkerReturn
    \/ WorkerUnwindDrop

\* The steps of the two threads inside write(), read() and the drops that
\* need no lock, and those that take the mutex.
ProducerLocal ==
    \/ WriteInner \/ WriteNotify \/ WriteReturn
    \/ WriteWaitWhile \/ WriteAfterWait \/ ProducerDropNotify
ProducerLock == WriteLockNotify \/ WriteLockWait \/ WriteWake
ConsumerLocal ==
    \/ ReadInner \/ ReadNotify \/ ReadReturn
    \/ ReadWaitWhile \/ ReadAfterWait \/ ConsumerDropNotify
ConsumerLock == ReadLockNotify \/ ReadLockWait \/ ReadWake

\* SpecCreate with the scheduling of FairSpec, stated per thread: a thread
\* that can run is scheduled, and a thread that asks for the mutex gets it
\* if it is released again and again.
FairSpecCreate ==
    /\ SpecCreate
    /\ WF_vars(ProducerLocal \/ WorkerLocal)
    /\ SF_vars(ProducerLock \/ WorkerDrop)
    /\ WF_vars(ConsumerLocal)
    /\ SF_vars(ConsumerLock)

(***************************************************************************)
(* Vocabulary of the properties.                                           *)
(***************************************************************************)
\* Bytes pushed into the ring buffer so far.
written == Len(wlog)
ProducerDropped == ppc \in {"drop_notify", "dropped"}
ConsumerDropped == cpc \in {"drop_notify", "dropped"}
InWrite == ppc \notin {"idle", "drop_notify", "dropped"}
InRead == cpc \notin {"idle", "drop_notify", "dropped"}
\* The last write call has returned / the last read call has returned.
WriteReturned == ~InWrite /\ pres # "none"
ReadReturned == ~InRead /\ cres # "none"
\* The last write was given a non-empty slice and returned the count 0.
WriteZero == WriteReturned /\ pbuf # <<>> /\ pn = 0
\* The last read was given a non-empty buffer and returned the count 0.
ReadZero == ReadReturned /\ cbuf > 0 /\ cdata = <<>>
\* Bytes a read has copied out of the ring buffer and not yet returned.
InFlight == IF cpc \in {"lock_notify", "notify", "unlock_ret"} THEN cdata ELSE <<>>

(***************************************************************************)
(* Properties.                                                             *)
(***************************************************************************)
\* C1: when the consumer reads until it gets 0, what it read is exactly the
\* byte sequence the producer's writes accepted before it was dropped, in
\* order, whatever the interleaving and also when the sequence is longer than
\* the capacity.
C1_Roundtrip == ReadZero => got = Take(Payload, ppos)

C1_Witness ==
    /\ ReadZero
    /\ ppc = "dropped"
    /\ ppos = MaxLen
    /\ MaxLen > capacity
    /\ got = Payload

C3_ReadEof ==
    ReadZero =>
        /\ ProducerDropped
        /\ is_empty
        /\ cres = "Ok"
        /\ Len(got) = written

C3_Witness == ReadZero /\ ProducerDropped /\ written > 0 /\ Len(got) = written

\* C4 (as claimed): a write of a non-empty slice that can store nothing
\* because the consumer was dropped while the buffer is full returns an error.
C4_WriteZeroIsError == (WriteZero /\ ConsumerDropped /\ is_full) => pres = "Err"

\* C4 (amended): such a write returns Ok(0); a write of a non-empty slice
\* returns the count 0 only as Ok, with the ring buffer full and left as it was.
C4_WriteZeroIsOk == WriteZero => (pres = "Ok" /\ is_full /\ written = ppos)

C4_Witness == WriteZero /\ ConsumerDropped /\ is_full /\ pres = "Ok"

\* C5: a write of a non-empty slice never returns 0 while the consumer handle
\* is open: a returned write either accepted at least one byte or the consumer
\* had been dropped, and a write that leaves the blocking arm by the Ok arm
\* (it found free space) carries a positive count.
C5_NoZeroWhileOpen ==
    /\ (WriteReturned /\ pbuf # <<>> /\ ~ConsumerDropped) => pn > 0
    /\ (ppc \in {"lock_notify", "notify", "unlock_ret"} /\ pbuf # <<>>) => pn > 0

C5_Witness ==
    /\ WriteReturned /\ pbuf # <<>> /\ pn > 0
    /\ ~ConsumerDropped
    /\ written > capacity

\* C6: a dropped handle has set the done flag, and once the other handle has
\* been dropped, a thread inside write or read
\* (parked on the condvar, about to park, or entering later) eventually
\* returns.
C6_DropWakes ==
    /\ []((ProducerDropped \/ ConsumerDropped) => done)
    /\ (InWrite /\ ConsumerDropped) ~> ~InWrite
    /\ (InRead /\ ProducerDropped) ~> ~InRead

C6_Witness == ppc = "waiting" /\ "p" \in waiters /\ cpc = "drop_notify"

\* C7: no lost wakeup: a write that found the buffer full (about to lock,
\* checking the predicate, or parked) goes on to store bytes once a read of
\* the consumer has freed space, and a read that found the buffer empty goes
\* on to take bytes once a write of the producer has stored some, wherever the
\* buffer operation falls between the waiter's check and its wait.
WriteBlocked == ppc \in {"lock_wait", "check", "waiting"}
ReadBlocked == cpc \in {"lock_wait", "check", "waiting"}

C7_NoLostWakeup ==
    /\ (WriteBlocked /\ ~is_full) ~> (ppc = "lock_notify" /\ pn > 0)
    /\ (ReadBlocked /\ ~is_empty) ~> (cpc = "lock_notify" /\ cdata # <<>>)

C7_Witness ==
    /\ ppc = "waiting" /\ "p" \in waiters
    /\ cpc = "lock_notify" /\ cdata # <<>>
    /\ ~is_full

\* C8 (as claimed): when both handles have been dropped, in whatever order
\* they were used and dropped, as many bytes were read as were written.
C8_TotalsEqual == (ppc = "dropped" /\ cpc = "dropped") => nread = written

\* C8 (amended): in every state the bytes returned by reads, then those a read
\* holds, then those in the ring buffer are exactly the bytes accepted by
\* writes, in order (none duplicated, none reordered, none lost inside the
\* channel); the totals are equal when the consumer was dropped after a read
\* that returned 0.
C8_Conservation ==
    /\ got \o InFlight \o rb = wlog
    /\ wlog = Take(Payload, written)
    /\ Len(got) + Len(InFlight) = nread
    /\ (ReadZero /\ cpc = "dropped" /\ ppc = "dropped") => nread = written

C8_Witness ==
    /\ ReadZero /\ cpc = "dropped" /\ ppc = "dropped"
    /\ written = MaxLen /\ nread = MaxLen

\* C9 (as claimed): creating a channel fails exactly when capacity is 0, so a
\* zero-capacity channel is never handed out, split or used.
C9_ZeroCapacityRejected == chan # "none" => (chan = "failed" <=> capacity = 0)

\* C10 (as claimed): when create_archive_streamed fails because the
\* destination cannot be created, the packing worker has not been spawned,
\* the source directory has not been listed and no byte has entered the
\* channel.
C10_DestinationFirst ==
    mres = "Destination" => (wpc = "unspawned" /\ ~enumerated /\ wlog = <<>>)

(***************************************************************************)
(* unpack() (subcommands/archive/unpack.rs): validate_destination_path,    *)
(* then the input is opened, wrapped in the zstd decoder and handed to     *)
(* tar's Archive::unpack, which writes the entries under dest one by one.  *)
(* What is at dest, whether the input can be opened and how far the        *)
(* stream can be read are choices of the environment.                      *)
(***************************************************************************)
\* Largest number of entries in the archive given to unpack().
MaxEntries == 2

\* No channel and no create_archive_streamed call.
NoChannel == InitWith({1}) /\ NoArchive

InitUnpack ==
    /\ NoChannel /\ NoDownload /\ NoProgress /\ NoPipe /\ NoCodec
    /\ upc = "start" /\ ures = "none"
    /\ udest \in {"absent", "empty", "nonempty", "file"}
    /\ udest0 = udest
    /\ uinput \in {"url", "file"}
    /\ uinputOk \in BOOLEAN
    /\ unum \in 0..MaxEntries
    /\ uopened = FALSE /\ uentries = 0

\* validate_destination_path: its result for what is at the path.
\*   exists, is_dir, read_dir().any(..)  -> Err "not an empty directory"
\*   exists, is_dir, no entry            -> Ok
\*   exists, not a directory             -> Err "not a directory"
\*   does not exist                      -> fs::create_dir_all
ValidateDestinationMutAnyDir(d) == IF d = "file" THEN "Destination" ELSE "Ok"
ValidateDestination(d) ==
    CASE d = "nonempty" -> "Destination"
      [] d = "empty"    -> "Ok"
      [] d = "file"     -> "Destination"
      [] d = "absent"   -> "Ok"

\* validate_destination_path: what is at the path when it returns.
DestAfterValidate(d) == IF d = "absent" THEN "empty" ELSE d

\* validate_destination_path(&dest)?
UnpackValidate ==
    /\ upc = "start"
    /\ udest' = DestAfterValidate(udest)
    /\ IF ValidateDestination(udest) = "Ok"
       THEN /\ upc' = "dispatch"
            /\ UNCHANGED ures
       ELSE /\ ures' = ValidateDestination(udest)
            /\ upc' = "returned"
    /\ UNCHANGED <<archVars, pipeVars, codecVars, dlVars, progVars,
                   udest0, uinput, uinputOk, unum, uopened, uentries>>

\* Input::File: OpenOptions::new().read(true).open(path).map_err(Error::Source)?
UnpackOpenFile ==
    /\ upc = "dispatch" /\ uinput = "file"
    /\ uopened' = TRUE
    /\ IF uinputOk
       THEN /\ upc' = "decoder"
            /\ UNCHANGED ures
       ELSE /\ ures' = "Source"
            /\ upc' = "returned"
    /\ UNCHANGED <<archVars, pipeVars, codecVars, dlVars, progVars,
                   udest, udest0, uinput, uinputOk, unum, uentries>>

\* Input::Url: download_and_unpack_archive(&url, dest) issues the request
UnpackOpenUrl ==
    /\ upc = "dispatch" /\ uinput = "url"
    /\ uopened' = TRUE
    /\ IF uinputOk
       THEN /\ upc' = "decoder"
            /\ UNCHANGED ures
       ELSE /\ ures' = "Request"
            /\ upc' = "returned"
    /\ UNCHANGED <<archVars, pipeVars, codecVars, dlVars, progVars,
                   udest, udest0, uinput, uinputOk, unum, uentries>>

\* zstd_decode_stream(..)?  (Ok)
UnpackDecoderOk ==
    /\ upc = "decoder"
    /\ upc' = "unpack"
    /\ UNCHANGED <<archVars, pipeVars, codecVars, dlVars, progVars,
                   ures, udest, udest0, uinput, uinputOk, unum, uopened, uentries>>

\* zstd_decode_stream(..)? fails with Error::ZstdDecoderSetup
UnpackDecoderFails ==
    /\ upc = "decoder"
    /\ ures' = "ZstdDecoderSetup"
    /\ upc' = "returned"
    /\ UNCHANGED <<archVars, pipeVars, codecVars, dlVars, progVars,
                   udest, udest0, uinput, uinputOk, unum, uopened, uentries>>

\* unpacker.unpack(dest): the next entry of the archive is written under dest
UnpackEntry ==
    /\ upc = "unpack"
    /\ uentries < unum
    /\ uentries' = uentries + 1
    /\ udest' = "nonempty"
    /\ UNCHANGED <<archVars, pipeVars, codecVars, dlVars, progVars,
                   upc, ures, udest0, uinput, uinputOk, unum, uopened>>

\* unpacker.unpack(dest).map_err(Error::Streaming)?: a read of the input, the
\* decoder or a write under dest fails
UnpackFails ==
    /\ upc = "unpack"
    /\ ures' = "Streaming"
    /\ upc' = "returned"
    /\ UNCHANGED <<archVars, pipeVars, codecVars, dlVars, progVars,
                   udest, udest0, uinput, uinputOk, unum, uopened, uentries>>

\* unpacker.unpack(dest) has written every entry: Ok(())
UnpackDone ==
    /\ upc = "unpack"
    /\ uentries = unum
    /\ ures' = "Ok"
    /\ upc' = "returned"
    /\ UNCHANGED <<archVars, pipeVars, codecVars, dlVars, progVars,
                   udest, udest0, uinput, uinputOk, unum, uopened, uentries>>

NextUnpack ==
    \/ UnpackValidate
    \/ UnpackOpenFile
    \/ UnpackOpenUrl
    \/ UnpackDecoderOk
    \/ UnpackDecoderFails
    \/ UnpackEntry
    \/ UnpackFails
    \/ UnpackDone

SpecUnpack == InitUnpack /\ [][NextUnpack]_vars

\* One call of either entry point: create_archive_streamed or unpack().
InitArchive == InitCreate \/ InitUnpack
NextArchive == NextCreate \/ NextUnpack
SpecArchive == InitArchive /\ [][NextArchive]_vars

(***************************************************************************)
(* download_archive and StreamPipe (unpack/download_stream.rs): the        *)
(* destination file is created, the runtime built, the request issued,     *)
(* and the body copied to the file, through the zstd decoder when          *)
(* zstd_decode is set.  What the url leads to, what is at dest and         *)
(* whether the runtime, the decoder and the reads succeed are choices of   *)
(* the environment.                                                        *)
(***************************************************************************)
\* A zstd frame carries each byte of its content shifted out of the range
\* of plain bytes; a byte in the plain range is not part of any frame.
ZstdShift == 10
zstd_encode(s) == [i \in 1..Len(s) |-> s[i] + ZstdShift]
zstd_decode(s) == [i \in 1..Len(s) |-> s[i] - ZstdShift]
IsFrame(s) == \A i \in 1..Len(s) : s[i] > ZstdShift

\* Largest number of download_archive calls made with one dest.
MaxCalls == 2

\* The body of a response with a non-success status: not an archive.
ErrorPage == <<4, 0, 4>>

\* The body the server sends for the url.
Body == IF durl = "status" THEN ErrorPage ELSE zstd_encode(Payload)

InitDownload ==
    /\ NoChannel /\ NoUnpack /\ NoProgress /\ NoPipe /\ NoCodec
    /\ dpc = "start" /\ dres = "none"
    /\ ddest \in {"absent", "file"}
    /\ ddest0 = ddest
    /\ durl \in {"malformed", "refused", "status", "ok"}
    /\ dzstd \in BOOLEAN
    /\ druntime = FALSE /\ drequested = FALSE
    /\ stream_length = <<>> /\ total_bytes_read = 0 /\ progress = 0
    /\ dlogged = <<>> /\ dfile = <<>>
    /\ dcalls = 1 /\ dprev = "none"

\* OpenOptions::new().create_new(true).write(true).open(dest)
DownloadOpenOkMutCreate == TRUE
DownloadOpenOk == ddest = "absent"

\* reqwest::get(url).await is Err for a url that cannot be parsed and for a
\* connection that cannot be made; a response is Ok whatever its status
\* (error_for_status is not called).
RequestOk(url) == url \in {"status", "ok"}

\* The values StreamPipe::read logs, `progress * 5` for each turn of
\*   while total_bytes_read > (stream_len * progress) / 20
RECURSIVE PipeLog(_, _, _)
PipeLog(total, len, prog) ==
    IF total > (len * prog) \div 20
    THEN <<prog * 5>> \o PipeLog(total, len, prog + 1)
    ELSE <<>>

\* let mut output_file = OpenOptions::new()...open(dest).map_err(Error::Destination)?
DownloadOpenDest ==
    /\ dpc = "start"
    /\ IF DownloadOpenOk
       THEN /\ ddest' = "file"
            /\ dpc' = "runtime"
            /\ UNCHANGED dres
       ELSE /\ dres' = "Destination"
            /\ dpc' = "returned"
            /\ UNCHANGED ddest
    /\ UNCHANGED <<archVars, pipeVars, codecVars, unpackVars, progVars,
                   ddest0, dcalls, dprev, durl, dzstd, druntime, drequested,
                   stream_length, total_bytes_read, progress, dlogged, dfile>>

\* TokioRuntimeBuilder::new_current_thread()...build().map_err(Error::Runtime)?  (Ok)
DownloadRuntimeOk ==
    /\ dpc = "runtime"
    /\ druntime' = TRUE
    /\ dpc' = "request"
    /\ UNCHANGED <<archVars, pipeVars, codecVars, unpackVars, progVars,
                   dres, ddest, ddest0, dcalls, dprev, durl, dzstd, drequested,
                   stream_length, total_bytes_read, progress, dlogged, dfile>>

\* ...build() fails
DownloadRuntimeFails ==
    /\ dpc = "runtime"
    /\ dres' = "Runtime"
    /\ dpc' = "returned"
    /\ UNCHANGED <<archVars, pipeVars, codecVars, unpackVars, progVars,
                   ddest, ddest0, dcalls, dprev, durl, dzstd, druntime, drequested,
                   stream_length, total_bytes_read, progress, dlogged, dfile>>

\* let mut stream_pipe = StreamPipe::new(runtime, url)?
DownloadRequest ==
    /\ dpc = "request"
    /\ drequested' = TRUE
    /\ IF RequestOk(durl)
       THEN /\ stream_length' \in {<<>>, <<Len(Body)>>}
            /\ progress' = 1
            /\ dpc' = IF dzstd THEN "decoder" ELSE "copy"
            /\ UNCHANGED dres
       ELSE /\ dres' = "Request"
            /\ dpc' = "returned"
            /\ UNCHANGED <<stream_length, progress>>
    /\ UNCHANGED <<archVars, pipeVars, codecVars, unpackVars, progVars,
                   ddest, ddest0, dcalls, dprev, durl, dzstd, druntime,
                   total_bytes_read, dlogged, dfile>>

\* zstd_decode::zstd_decode_stream(stream_pipe, log_distance)?  (Ok)
DownloadDecoderOk ==
    /\ dpc = "decoder"
    /\ dpc' = "copy"
    /\ UNCHANGED <<archVars, pipeVars, codecVars, unpackVars, progVars,
                   dres, ddest, ddest0, dcalls, dprev, durl, dzstd, druntime, drequested,
                   stream_length, total_bytes_read, progress, dlogged, dfile>>

\* zstd_decode_stream(..)? fails with Error::ZstdDecoderSetup
DownloadDecoderFails ==
    /\ dpc = "decoder"
    /\ dres' = "ZstdDecoderSetup"
    /\ dpc' = "returned"
    /\ UNCHANGED <<archVars, pipeVars, codecVars, unpackVars, progVars,
                   ddest, ddest0, dcalls, dprev, durl, dzstd, druntime, drequested,
                   stream_length, total_bytes_read, progress, dlogged, dfile>>

\* One turn of std_io::copy: StreamPipe::read returns the next k bytes of
\* the body (and logs the progress); they are written to the file, decoded
\* when zstd_decode is set; bytes that are no frame fail the decoder's read.
DownloadCopy(k) ==
    /\ dpc = "copy"
    /\ total_bytes_read < Len(Body)
    /\ LET n == Min(k, Len(Body) - total_bytes_read)
           chunk == SubSeq(Body, total_bytes_read + 1, total_bytes_read + n)
           emitted == IF stream_length = <<>> THEN <<>>
                      ELSE PipeLog(total_bytes_read + n, stream_length[1], progress)
       IN  /\ total_bytes_read' = total_bytes_read + n
           /\ dlogged' = dlogged \o emitted
           /\ progress' = progress + Len(emitted)
           /\ IF dzstd /\ ~IsFrame(chunk)
              THEN /\ dres' = "Streaming"
                   /\ dpc' = "returned"
                   /\ UNCHANGED dfile
              ELSE /\ dfile' = dfile \o (IF dzstd THEN zstd_decode(chunk) ELSE chunk)
                   /\ UNCHANGED <<dres, dpc>>
    /\ UNCHANGED <<archVars, pipeVars, codecVars, unpackVars, progVars,
                   ddest, ddest0, dcalls, dprev, durl, dzstd, druntime, drequested, stream_length>>

\* self.runtime.block_on(fut)?: a read of the body fails; copy returns the
\* error, which download_archive maps to Error::Streaming
DownloadReadFails ==
    /\ dpc = "copy"
    /\ dres' = "Streaming"
    /\ dpc' = "returned"
    /\ UNCHANGED <<archVars, pipeVars, codecVars, unpackVars, progVars,
                   ddest, ddest0, dcalls, dprev, durl, dzstd, druntime, drequested,
                   stream_length, total_bytes_read, progress, dlogged, dfile>>

\* The read returns 0 at the end of the body: copy ends, Ok(())
DownloadDone ==
    /\ dpc = "copy"
    /\ total_bytes_read = Len(Body)
    /\ dres' = "Ok"
    /\ dpc' = "returned"
    /\ UNCHANGED <<archVars, pipeVars, codecVars, unpackVars, progVars,
                   ddest, ddest0, dcalls, dprev, durl, dzstd, druntime, drequested,
                   stream_length, total_bytes_read, progress, dlogged, dfile>>

\* A later call of download_archive with the same dest and any url, after the
\* previous call has returned; what is on disk stays.
DownloadAgain ==
    /\ dpc = "returned"
    /\ dcalls < MaxCalls
    /\ dcalls' = dcalls + 1
    /\ dprev' = dres
    /\ dpc' = "start" /\ dres' = "none"
    /\ ddest0' = ddest
    /\ durl' \in {"malformed", "refused", "status", "ok"}
    /\ dzstd' \in BOOLEAN
    /\ druntime' = FALSE /\ drequested' = FALSE
    /\ stream_length' = <<>> /\ total_bytes_read' = 0 /\ progress' = 0
    /\ dlogged' = <<>>
    /\ UNCHANGED <<archVars, pipeVars, codecVars, unpackVars, progVars, ddest, dfile>>

NextDownload ==
    \/ DownloadOpenDest
    \/ DownloadRuntimeOk
    \/ DownloadRuntimeFails
    \/ DownloadRequest
    \/ DownloadDecoderOk
    \/ DownloadDecoderFails
    \/ \E k \in 1..MaxBuf : DownloadCopy(k)
    \/ DownloadReadFails
    \/ DownloadDone
    \/ DownloadAgain

SpecDownload == InitDownload /\ [][NextDownload]_vars

(***************************************************************************)
(* ProgressTracker (common/progress.rs): new(total_to_process, log) and    *)
(* advance_by(step), called with any steps; the calls of log_progress are  *)
(* recorded in logged.                                                     *)
(***************************************************************************)
\* Largest total_to_process given to ProgressTracker::new.
MaxTotal == 22
\* Largest step given to one advance_by call.
MaxStep == 3
\* How far the steps may carry processed beyond total_to_process.
MaxExcess == 2

STEPS == 20
PROGRESS_MULTIPLIER == 100 \div STEPS

InitProgress ==
    /\ NoChannel /\ NoUnpack /\ NoDownload /\ NoPipe /\ NoCodec
    /\ tracker = "arg"
    /\ total_to_process \in 0..MaxTotal
    /\ processed = 0 /\ progress_factor = 0 /\ logged = <<>> /\ warned = FALSE

\* ProgressTracker::new
ProgressTracker_new ==
    /\ tracker = "arg"
    /\ IF total_to_process = 0
       THEN /\ tracker' = "Err"
            /\ UNCHANGED <<processed, progress_factor>>
       ELSE /\ tracker' = "Ok"
            /\ processed' = 0
            /\ progress_factor' = 1
    /\ UNCHANGED <<archVars, pipeVars, codecVars, unpackVars, dlVars, total_to_process, logged, warned>>

\* The loop condition of advance_by:
\*   self.processed * STEPS >= self.total_to_process * self.progress_factor
AtMilestoneMutStrict(p, t, f) == p * STEPS > t * f
AtMilestone(p, t, f) == p * STEPS >= t * f

\* The arguments of the log_progress calls made by the loop of advance_by,
\* in order: progress_factor * PROGRESS_MULTIPLIER for each turn.
MilestonesMutOnce(p, t, f) ==
    IF AtMilestone(p, t, f) THEN <<f * PROGRESS_MULTIPLIER>> ELSE <<>>
RECURSIVE Milestones(_, _, _)
Milestones(p, t, f) ==
    IF AtMilestone(p, t, f)
    THEN <<f * PROGRESS_MULTIPLIER>> \o Milestones(p, t, f + 1)
    ELSE <<>>

\* ProgressTracker::advance_by
advance_by(step) ==
    /\ tracker = "Ok"
    /\ processed + step <= total_to_process + MaxExcess
    /\ LET p == processed + step
           calls == Milestones(p, total_to_process, progress_factor)
       IN  /\ processed' = p
           /\ logged' = logged \o calls
           /\ progress_factor' = progress_factor + Len(calls)
           /\ warned' = (p > total_to_process)
    /\ UNCHANGED <<archVars, pipeVars, codecVars, unpackVars, dlVars, tracker, total_to_process>>

NextProgress ==
    \/ ProgressTracker_new
    \/ \E step \in 0..MaxStep : advance_by(step)

SpecProgress == InitProgress /\ [][NextProgress]_vars

(***************************************************************************)
(* create_archive_streamed: results (SpecCreate).                          *)
(***************************************************************************)
\* The packing worker has failed: ArchiveStream::new or pack() returned Err
\* or panicked, and the closure's expect() unwinds or has unwound the thread.
WorkerFailed == wpc \in {"new_failed", "failed", "unwind_finish", "panicked"}

\* The call has returned to its caller.
CreateReturned == mpc = "returned"

\* C11 (as the claim states it): with the overwrite flag set, a call whose
\* destination is an existing file does not fail on the destination, it
\* replaces the file.  create_archive and create_archive_streamed open the
\* destination with create_new(true) whatever their third argument is, so
\* the call returns Error::Destination.
C11_OverwriteReplaces ==
    (overwrite /\ dest = "file") => mres # "Destination"

\* C12 (as the claim states it): when the copy/encode loop or the encoder's
\* finish() fails while the packing worker has failed too, the error the
\* call returns is the packing error.  The `?` on the copy and on finish()
\* returns Error::Streaming without joining the worker.
C12_PackingErrorFirst ==
    [][(WorkerFailed /\ mpc \in {"copy_wait", "finish"} /\ mpc' = "unwind")
          => mres' = "ArchiveStream"]_vars

\* C13 (as the claim states it): when the call has returned, its packing
\* worker has terminated.  The early returns leave the worker running.
C13_JoinedOnReturn ==
    CreateReturned => WorkerTerminated

\* C14: a call never returns success after a failed pack: when the worker
\* has failed and the call has returned, the result is an error, and a
\* result of Ok means the worker ran pack() to its end and returned.
C14_FailedPackIsError ==
    /\ (CreateReturned /\ WorkerFailed) => mres \notin {"none", "Ok"}
    /\ mres = "Ok" => (wpc = "returned" /\ ~WorkerFailed)

C14_Witness ==
    CreateReturned /\ wpc = "panicked" /\ mres = "ArchiveStream" /\ encFinish = "Ok"

\* C15: the call returns success only if the worker finalized the archive
\* (every record, then the trailer of Builder::finish), every byte written
\* into the channel was read in order and handed to the encoder, and the
\* encoder's finish() was called after the last of them and succeeded.
C15_OkMeansComplete ==
    mres = "Ok" =>
        /\ wpc = "returned" /\ finished
        /\ wlog = Payload \o <<Trailer>>
        /\ got = wlog
        /\ encoded = wlog
        /\ encFinish = "Ok"

C15_Witness ==
    CreateReturned /\ mres = "Ok" /\ encoded = Payload \o <<Trailer>>

(***************************************************************************)
(* Destinations (SpecArchive, SpecUnpack).                                 *)
(***************************************************************************)
IsPrefix(a, b) == Len(a) <= Len(b) /\ SubSeq(b, 1, Len(a)) = a

\* The path holds a directory.
IsDir(d) == d \in {"empty", "nonempty"}

\* C16: no step of create_archive_streamed removes or truncates the file at
\* dest (what was handed to the encoder only grows), and no step of unpack()
\* removes the destination directory or an entry written under it; a call
\* that failed after its destination was opened, or validated, has returned
\* with the destination in place.
C16_NoRollback ==
    [][ /\ dest = "file" => dest' = "file"
        /\ IsPrefix(encoded, encoded')
        /\ IsDir(udest) => IsDir(udest')
        /\ uentries <= uentries'
        /\ udest = "nonempty" => udest' = "nonempty"
        /\ (mpc' = "returned" /\ mres' \in {"ZstdEncoderSetup", "Streaming", "ArchiveStream"})
              => dest' = "file"
        /\ (upc' = "returned" /\ ures' \in {"Source", "Request", "ZstdDecoderSetup", "Streaming"})
              => IsDir(udest')
      ]_vars

C16_Witness ==
    mpc = "returned" /\ mres = "Streaming" /\ dest = "file" /\ encoded # <<>>

C18_SetupFailureIsRequest ==
    (dpc = "returned" /\ drequested /\ durl \in {"malformed", "refused", "status"})
        => (dres = "Request" /\ total_bytes_read = 0 /\ dfile = <<>>)

\* C19: a call whose destination file already exists has returned
\* Error::Destination as soon as it has taken a step, without building the
\* runtime and without calling reqwest::get, whatever the url.
C19_DestinationCheckedFirst ==
    /\ (ddest0 = "file" /\ dpc \notin {"none", "start"})
          => (dpc = "returned" /\ dres = "Destination" /\ ~druntime /\ ~drequested)
    /\ dres = "Destination"
          => (ddest0 = "file" /\ ~druntime /\ ~drequested /\ total_bytes_read = 0)

C19_Witness ==
    ddest0 = "file" /\ dpc = "returned" /\ dres = "Destination" /\ durl = "malformed"

(***************************************************************************)
(* ProgressTracker: what is logged (SpecProgress).                         *)
(***************************************************************************)
\* C20: when the steps given to a tracker with total T > 0 sum to exactly T,
\* log_progress has been called exactly 20 times, with 5, 10, ..., 100 in
\* this order.
C20_TwentyMilestones ==
    (tracker = "Ok" /\ processed = total_to_process)
        => (Len(logged) = 20 /\ \A k \in 1..20 : logged[k] = 5 * k)

C20_Witness ==
    /\ tracker = "Ok" /\ processed = total_to_process
    /\ total_to_process > STEPS
    /\ Len(logged) = STEPS /\ logged[STEPS] = 100

\* C21 (as the claim states it): log_progress is never called with a
\* percentage greater than 100, whatever the steps.  The loop of advance_by
\* has no upper limit on progress_factor: once processed exceeds
\* total_to_process by a twentieth of it, 105 is logged.
C21_NeverBeyond100 ==
    \A i \in 1..Len(logged) : logged[i] <= 100

\* C22: after every advance_by, 5*k (1 <= k <= 20) has been logged exactly
\* when processed*20 >= k*total, so it was logged by the first call that made
\* this true; it is the k-th value logged, so the values are the multiples
\* of 5 in increasing order, each once, however many a single call crosses.
C22_MilestoneWhenCrossed ==
    tracker = "Ok" =>
        /\ \A k \in 1..20 :
               (k <= Len(logged)) <=> (processed * 20 >= k * total_to_process)
        /\ \A i \in 1..Len(logged) : logged[i] = 5 * i
        /\ progress_factor = Len(logged) + 1

C22_Witness ==
    /\ tracker = "Ok" /\ total_to_process = 10 /\ processed = 3
    /\ logged = <<5, 10, 15, 20, 25, 30>>

\* C23 (as the claim states it): with a declared content length L > 0, the
\* percentages StreamPipe::read has logged are those a ProgressTracker with
\* total L has logged after the same number of bytes.  StreamPipe's test is
\* strict (total_bytes_read > (stream_len * progress) / 20), so a boundary
\* that falls exactly on the bytes read is not logged by that read, and 100
\* is not logged when the L-th byte is read.
C23_PipeLogsAsTracker ==
    (stream_length # <<>> /\ stream_length[1] > 0)
        => dlogged = Milestones(total_bytes_read, stream_length[1], 1)

(***************************************************************************)
(* The channel: waiting (Spec).                                            *)
(***************************************************************************)
\* C27: with a capacity of at least 1 the producer and the consumer are
\* never both parked on the condition variable: at most one thread waits,
\* so a notify_one reaches the only waiter there is.
C27_AtMostOneWaiter ==
    /\ Cardinality(waiters) <= 1
    /\ ~("p" \in waiters /\ "c" \in waiters)

C27_Witness ==
    waiters = {"c"} /\ cpc = "waiting" /\ ppc = "notify" /\ pn > 0

(***************************************************************************)
(* create_archive_streamed: the worker after an early return               *)
(* (FairSpecCreate).                                                       *)
(***************************************************************************)
\* The call returned without reaching handle.join().
EarlyReturn ==
    mpc = "returned" /\ mres \in {"Destination", "ZstdEncoderSetup", "Streaming"}

\* C28: after an early return the consumer is dropped and the worker, which
\* was not joined, terminates: once the consumer is gone the producer is
\* never left parked, a write returns 0 when the buffer is full and the
\* worker runs to its end.
C28_DetachedWorkerEnds ==
    /\ [](EarlyReturn => cpc \in {"drop_notify", "dropped"})
    /\ [](cpc = "dropped" => "p" \notin waiters)
    /\ EarlyReturn ~> WorkerTerminated

C28_Witness ==
    /\ EarlyReturn /\ wpc = "panicked" /\ ppc = "dropped"
    /\ pres = "Ok" /\ pn = 0 /\ is_full

(***************************************************************************)
(* create_archive_streamed: a worker that fails mid-pack (SpecCreate).     *)
(***************************************************************************)
\* C29: the consumer sees a failed worker as it sees a finished one: no read
\* returns an error, the read that returns 0 comes after every byte the
\* worker wrote has been read, and when the encoder does not fail by itself
\* the copy and finish() succeed and the call returns Error::ArchiveStream,
\* from the join.
C29_FailureSeenOnlyAtJoin ==
    /\ cres # "Err"
    /\ (wpc = "panicked" /\ ReadZero) => got = wlog
    /\ (wpc = "panicked" /\ encFinish = "Ok" /\ mres # "none")
          => (mres = "ArchiveStream" /\ encoded = wlog)

C29_Witness ==
    /\ mres = "ArchiveStream" /\ wpc = "panicked" /\ encFinish = "Ok"
    /\ ppos < MaxLen /\ wlog # <<>> /\ encoded = wlog

(***************************************************************************)
(* download_archive: the destination file over several calls               *)
(* (SpecDownload).                                                         *)
(***************************************************************************)
\* C30: the destination file exists before reqwest::get is called and no
\* step removes it or takes bytes away from it: when a call has failed with
\* Error::Runtime, Error::Request or Error::Streaming the file is there, and
\* every later call with this dest returns Error::Destination whatever its
\* url, without building a runtime or requesting anything.
C30_FileStaysAndBlocks ==
    /\ [](drequested => ddest = "file")
    /\ [](dres \in {"Runtime", "Request", "Streaming"} => ddest = "file")
    /\ [][ddest = "file" => (ddest' = "file" /\ IsPrefix(dfile, dfile'))]_vars
    /\ []((dcalls > 1 /\ dpc # "start")
            => (dpc = "returned" /\ dres = "Destination" /\ ~druntime /\ ~drequested))

C30_Witness ==
    /\ dcalls = 2 /\ dprev = "Request" /\ durl = "ok"
    /\ dpc = "returned" /\ dres = "Destination" /\ ddest = "file"

(***************************************************************************)
(* The zstd stream as the archive code configures it (zstd_utils.rs,       *)
(* archive_get/zstd_decode.rs).  A frame starts with the window-size       *)
(* exponent its encoder was configured with; a decoder whose window_log_max *)
(* is smaller refuses the frame on every read.                             *)
(***************************************************************************)
WINDOW_LOG_MAX_SIZE == 31
DEFAULT_WINDOW_LOG_MAX_SIZE == 27

\* zstd_encode_stream: encoder.window_log(WINDOW_LOG_MAX_SIZE)
EncoderWindowLog == WINDOW_LOG_MAX_SIZE

\* archive::zstd_utils::zstd_decode_stream: decoder.window_log_max(WINDOW_LOG_MAX_SIZE)
DecoderWindowLogMaxMutDefault == DEFAULT_WINDOW_LOG_MAX_SIZE
DecoderWindowLogMax == WINDOW_LOG_MAX_SIZE

\* archive_get::zstd_decode_stream(stream, log_distance): window_log_max is
\* set only for Some(window_log_distance); otherwise the decoder keeps the
\* default ceiling.
GetWindowLogMax(log_distance) ==
    IF log_distance = <<>> THEN DEFAULT_WINDOW_LOG_MAX_SIZE ELSE log_distance[1]

\* Encoder::write_all + finish(): the frame for the bytes s.
zstd_frame(w, s) == <<w>> \o zstd_encode(s)
FrameWindow(f) == f[1]
\* Decoder::read on the frame f succeeds iff the ceiling admits its window.
FrameReadable(ceiling, f) == ceiling >= FrameWindow(f)
FrameContent(f) == zstd_decode(Tail(f))

(***************************************************************************)
(* Packing a directory into a tar stream (tar_utils.rs: ArchiveStream::new *)
(* and pack, archive), compressing it into the archive file                *)
(* (create/pack.rs), and unpacking that file into a fresh directory        *)
(* (unpack.rs, unpack/file_stream.rs).  A tar record is the entry's name,  *)
(* its type flag and size, then its bytes; the stream ends with Trailer.   *)
(***************************************************************************)
\* Largest number of items fs::read_dir yields.
MaxList == 3
\* Largest file name.
MaxName == 2

\* Contents of a regular file.
Contents == {<<>>, <<1>>, <<2, 1>>}

\* An item of the listing that is an Err.
ErrEntry == [kind |-> "err", name |-> 0, data |-> <<>>]
\* A regular file with its bytes, or a subdirectory (data: what is inside it).
OkEntries ==
    [kind : {"file"}, name : 1..MaxName, data : Contents]
        \cup [kind : {"dir"}, name : 1..MaxName, data : {<<1>>}]

Listings == UNION {[1..n -> OkEntries \cup {ErrEntry}] : n \in 0..MaxList}

DistinctNames(l) ==
    \A i, j \in 1..Len(l) :
        (i # j /\ l[i].kind # "err" /\ l[j].kind # "err") => l[i].name # l[j].name

\* fs::read_dir(dir)?.flatten(): the Ok items of the iterator, in order.
FlattenMutKeepsErrors(l) == l
Flatten(l) == SelectSeq(l, LAMBDA e : e.kind # "err")

\* The type flag of a tar header.
TypeFlag(kind) == IF kind = "dir" THEN 5 ELSE 0

\* builder.append_file(path.file_name(), &mut file): the header built from
\* the open file's metadata, then the file's bytes; for a directory the
\* header alone.
TarRecordMutNoData(e) == <<e.name, TypeFlag(e.kind), 0>>
TarRecord(e) ==
    IF e.kind = "dir"
    THEN <<e.name, TypeFlag("dir"), 0>>
    ELSE <<e.name, TypeFlag("file"), Len(e.data)>> \o e.data

EndItem == [kind |-> "end", name |-> 0, data |-> <<>>]
BadItem == [kind |-> "bad", name |-> 0, data |-> <<>>]

\* Archive::entries: the items a reader finds in the tar stream b.
RECURSIVE TarItems(_)
TarItems(b) ==
    IF b = <<>> THEN <<>>
    ELSE IF b[1] = Trailer THEN <<EndItem>> \o TarItems(Tail(b))
    ELSE IF Len(b) < 3 THEN <<BadItem>>
    ELSE IF 3 + b[3] > Len(b) THEN <<BadItem>>
    ELSE <<[kind |-> IF b[2] = TypeFlag("dir") THEN "dir" ELSE "file",
            name |-> b[1],
            data |-> SubSeq(b, 4, 3 + b[3])]>>
             \o TarItems(SubSeq(b, 4 + b[3], Len(b)))

InitPipeline ==
    /\ NoChannel /\ NoUnpack /\ NoDownload /\ NoProgress /\ NoCodec
    /\ listing \in {l \in Listings : DistinctNames(l)}
    /\ file_paths = <<>> /\ tarball = <<>>
    /\ apc = "new" /\ ares = "none" /\ xres = "none"
    /\ afile = <<>> /\ aread = 0 /\ outdir = {}

\* ArchiveStream::new: for entry in fs::read_dir(dir)?.flatten() { push_back }
ArchiveStream_new ==
    /\ apc = "new"
    /\ \E ok \in BOOLEAN :
         IF ok
         THEN /\ file_paths' = Flatten(listing)
              /\ apc' = "pack"
              /\ UNCHANGED ares
         ELSE /\ ares' = "Err"
              /\ apc' = "failed"
              /\ UNCHANGED file_paths
    /\ UNCHANGED <<archVars, unpackVars, dlVars, progVars, codecVars,
                   listing, tarball, afile, aread, outdir, xres>>

\* pack: pop_front, open(&path), builder.append_file(file_name, &mut file)
PackAppend ==
    /\ apc = "pack"
    /\ file_paths # <<>>
    /\ tarball' = tarball \o TarRecord(Head(file_paths))
    /\ file_paths' = Tail(file_paths)
    /\ UNCHANGED <<archVars, unpackVars, dlVars, progVars, codecVars,
                   listing, apc, ares, afile, aread, outdir, xres>>

\* pack: the popped path cannot be opened, or append_file returns Err
PackFileError ==
    /\ apc = "pack"
    /\ file_paths # <<>>
    /\ file_paths' = Tail(file_paths)
    /\ apc' = "unwind"
    /\ UNCHANGED <<archVars, unpackVars, dlVars, progVars, codecVars,
                   listing, tarball, ares, afile, aread, outdir, xres>>

\* pack: self.builder.finish() once file_paths is empty
PackFinish ==
    /\ apc = "pack"
    /\ file_paths = <<>>
    /\ tarball' = Append(tarball, Trailer)
    /\ apc' = "packed"
    /\ UNCHANGED <<archVars, unpackVars, dlVars, progVars, codecVars,
                   listing, file_paths, ares, afile, aread, outdir, xres>>

\* The failed pack drops the Builder, whose Drop calls finish().
PackUnwind ==
    /\ apc = "unwind"
    /\ tarball' = Append(tarball, Trailer)
    /\ ares' = "Err"
    /\ apc' = "failed"
    /\ UNCHANGED <<archVars, unpackVars, dlVars, progVars, codecVars,
                   listing, file_paths, afile, aread, outdir, xres>>

\* create_archive: the fresh dest is created, the tar stream copied through
\* zstd_encode_stream into it, encoder.finish()
ArchiveEncode ==
    /\ apc = "packed"
    /\ afile' = zstd_frame(EncoderWindowLog, tarball)
    /\ ares' = "Ok"
    /\ apc' = "created"
    /\ UNCHANGED <<archVars, unpackVars, dlVars, progVars, codecVars,
                   listing, file_paths, tarball, aread, outdir, xres>>

\* create_archive: opening dest, the encoder set-up, the copy or finish() fails
ArchiveEncodeFails ==
    /\ apc = "packed"
    /\ ares' = "Err"
    /\ apc' = "failed"
    /\ UNCHANGED <<archVars, unpackVars, dlVars, progVars, codecVars,
                   listing, file_paths, tarball, afile, aread, outdir, xres>>

\* unpack(): the fresh destination passes validate_destination_path, the
\* archive file is opened and wrapped by zstd_decode_stream and Archive::new
ArchiveUnpackOpen ==
    /\ apc = "created"
    /\ apc' = "unpack"
    /\ UNCHANGED <<archVars, unpackVars, dlVars, progVars, codecVars,
                   listing, file_paths, tarball, ares, afile, aread, outdir, xres>>

\* unpacker.unpack(dest): the next item is read through the decoder and
\* written under dest; the end marker ends the unpacking.
ArchiveUnpackItem ==
    /\ apc = "unpack"
    /\ IF ~FrameReadable(DecoderWindowLogMax, afile)
       THEN /\ xres' = "Streaming"
            /\ apc' = "failed"
            /\ UNCHANGED <<aread, outdir>>
       ELSE LET items == TarItems(FrameContent(afile)) IN
            IF aread >= Len(items) \/ items[aread + 1].kind = "end"
            THEN /\ xres' = "Ok"
                 /\ apc' = "done"
                 /\ UNCHANGED <<aread, outdir>>
            ELSE IF items[aread + 1].kind = "bad"
            THEN /\ xres' = "Streaming"
                 /\ apc' = "failed"
                 /\ UNCHANGED <<aread, outdir>>
            ELSE /\ outdir' = outdir \cup {items[aread + 1]}
                 /\ aread' = aread + 1
                 /\ UNCHANGED <<apc, xres>>
    /\ UNCHANGED <<archVars, unpackVars, dlVars, progVars, codecVars,
                   listing, file_paths, tarball, ares, afile>>

\* unpacker.unpack(dest).map_err(Error::Streaming)?: a read of the archive
\* file or a write under dest fails
ArchiveUnpackFails ==
    /\ apc = "unpack"
    /\ xres' = "Streaming"
    /\ apc' = "failed"
    /\ UNCHANGED <<archVars, unpackVars, dlVars, progVars, codecVars,
                   listing, file_paths, tarball, ares, afile, aread, outdir>>

NextPipeline ==
    \/ ArchiveStream_new
    \/ PackAppend
    \/ PackFileError
    \/ PackFinish
    \/ PackUnwind
    \/ ArchiveEncode
    \/ ArchiveEncodeFails
    \/ ArchiveUnpackOpen
    \/ ArchiveUnpackItem
    \/ ArchiveUnpackFails

SpecPipeline == InitPipeline /\ [][NextPipeline]_vars

\* The entries of the listing that are not errors, in order.
Listed == SelectSeq(listing, LAMBDA e : e.kind # "err")
\* The archive item for a listed entry: a subdirectory gives an item without
\* bytes, and nothing for what is inside it.
ExpectedItem(e) ==
    [kind |-> e.kind, name |-> e.name, data |-> IF e.kind = "file" THEN e.data ELSE <<>>]
ExpectedItems == [i \in 1..Len(Listed) |-> ExpectedItem(Listed[i])]

C24_RoundTrip ==
    (apc = "done" /\ \A i \in 1..Len(listing) : listing[i].kind = "file")
        => /\ outdir = {ExpectedItem(listing[i]) : i \in 1..Len(listing)}
           /\ Cardinality(outdir) = Len(listing)
           /\ ares = "Ok" /\ xres = "Ok"

C24_Witness ==
    /\ apc = "done" /\ Len(listing) = 2
    /\ listing[1].kind = "file" /\ listing[2].kind = "file"
    /\ listing[1].data = <<2, 1>> /\ listing[2].data = <<1>>
    /\ Cardinality(outdir) = 2

(***************************************************************************)
(* One encoder and one decoder on the same stream.  On the "archive" path  *)
(* both come from archive/zstd_utils.rs (create, then unpack); on the      *)
(* "archive_get" path the decoder comes from archive_get/zstd_decode.rs    *)
(* and the stream from a server; on the "test" path both are configured    *)
(* freely, as the tests do.                                                *)
(***************************************************************************)
\* Largest number of reads tried on a stream the decoder refuses.
MaxReads == 2

\* Window-size exponents an encoder or decoder may be configured with.
Windows == DEFAULT_WINDOW_LOG_MAX_SIZE..WINDOW_LOG_MAX_SIZE

Payloads == UNION {[1..n -> 1..2] : n \in 0..MaxLen}

InitCodec ==
    /\ NoChannel /\ NoUnpack /\ NoDownload /\ NoProgress /\ NoPipe
    /\ zpc = "encoder"
    /\ zpath \in {"archive", "archive_get", "test"}
    /\ zpayload \in Payloads
    /\ zwindow = 0 /\ zceiling = 0
    /\ zframe = <<>> /\ zdecoded = <<>> /\ zreads = <<>>

\* zstd_encode_stream (or, off the archive path, an encoder with any window),
\* write_all(payload), finish()
CodecEncode ==
    /\ zpc = "encoder"
    /\ \E w \in Windows :
         /\ zpath = "archive" => w = EncoderWindowLog
         /\ zwindow' = w
         /\ zframe' = zstd_frame(w, zpayload)
    /\ zpc' = "decoder"
    /\ UNCHANGED <<archVars, unpackVars, dlVars, progVars, pipeVars,
                   zpath, zpayload, zceiling, zdecoded, zreads>>

\* zstd_decode_stream(stream) / zstd_decode_stream(stream, log_distance)
CodecDecoderNew ==
    /\ zpc = "decoder"
    /\ \/ zpath = "archive" /\ zceiling' = DecoderWindowLogMax
       \/ /\ zpath = "archive_get"
          /\ \E log_distance \in {<<>>} \cup {<<w>> : w \in Windows} :
                zceiling' = GetWindowLogMax(log_distance)
       \/ zpath = "test" /\ zceiling' \in Windows
    /\ zpc' = "read"
    /\ UNCHANGED <<archVars, unpackVars, dlVars, progVars, pipeVars,
                   zpath, zpayload, zwindow, zframe, zdecoded, zreads>>

\* decoder.read(buf) with a buffer of k bytes
CodecRead(k) ==
    /\ zpc = "read"
    /\ IF ~FrameReadable(zceiling, zframe)
       THEN /\ Len(zreads) < MaxReads
            /\ zreads' = Append(zreads, "Err")
            /\ UNCHANGED <<zdecoded, zpc>>
       ELSE LET content == FrameContent(zframe)
                from == Len(zdecoded) + 1
                to == Min(Len(zdecoded) + k, Len(content))
            IN  /\ zdecoded' = zdecoded \o SubSeq(content, from, to)
                /\ zreads' = Append(zreads, "Ok")
                /\ zpc' = IF from > to THEN "eof" ELSE "read"
    /\ UNCHANGED <<archVars, unpackVars, dlVars, progVars, pipeVars,
                   zpath, zpayload, zwindow, zceiling, zframe>>

NextCodec ==
    \/ CodecEncode
    \/ CodecDecoderNew
    \/ \E k \in 1..MaxBuf : CodecRead(k)

SpecCodec == InitCodec /\ [][NextCodec]_vars

C25_WitnessMismatch ==
    /\ zpath = "archive_get" /\ zpc = "read"
    /\ zwindow = WINDOW_LOG_MAX_SIZE /\ zceiling = DEFAULT_WINDOW_LOG_MAX_SIZE
    /\ zreads = <<"Err", "Err">>
====
